---- MODULE Spec2Model ----
(***************************************************************************)
(* Model of pelcodrs, a Pelco D encoder/decoder.                           *)
(*                                                                         *)
(* A client of the library does one of two things:                         *)
(*   - it drives one MessageBuilder: MessageBuilder::new(a), then builder  *)
(*     operations, with finalize() called at any point;                    *)
(*   - it makes one call of a constructor, a conversion or a free function *)
(*     (Message::new, Message::from_bytes, the preset constructors,        *)
(*     From<[u8; 7]>, TryFrom<&[u8]>, checksum, speed_to_byte).            *)
(* Bytes are naturals in 0..255.  An f32 x is the integer x * 2^24; the    *)
(* model only uses values whose scaled form is exact.                      *)
(***************************************************************************)
EXTENDS Integers, Sequences, FiniteSets, TLC

VARIABLES
    builder,    \* the MessageBuilder: [address, cmd1, cmd2, data1, data2]
    addr0,      \* the address the builder was created with
    nops,       \* number of builder operations applied so far
    lastOp,     \* kind of the last operation on the builder: "new", "flag"
                \* (a flag setter), "speed" (pan, tilt), "stop" or "finalize"
    out,        \* what the last finalize() returned (a Result<Message>)
    panicked,   \* TRUE once an unwrap() of None was executed
    call,       \* the single constructor / conversion / function call
    port        \* the PelcoDPort, its transport and the send_message calls

vars == <<builder, addr0, nops, lastOp, out, panicked, call, port>>

---------------------------------------------------------------------------
(* Bounds of the model *)

\* longest sequence of builder operations (finalize() is not counted)
MaxOps == 3
\* longest slice handed to TryFrom<&[u8]> for Message
MaxSliceLen == 8
\* longest input of checksum() built from arbitrary bytes
MaxLen == 3
\* Speed::Range inputs are k/16 for k in -2 .. MaxSpeedIdx
MaxSpeedIdx == 18
\* longest slice handed to Response::try_from
MaxResponseLen == 19
\* AdjustmentValue arguments lie within MaxAdjust of 0, of 65535, of
\* -32768 and of 32767
MaxAdjust == 260
\* number of send_message calls on a port
MaxSends == 2

---------------------------------------------------------------------------
(* Constants of src/src/message.rs *)

MESSAGE_SIZE == 7
SYNC_BYTE == 255
SPEED_TURBO_BYTE == 255

\* 2^24: the scale of the fixed-point image of an f32
F32One == 2^24
SPEED_MAX_RANGE == 1 * F32One
SPEED_MIN_RANGE == 0 * F32One

Byte == 0..255

---------------------------------------------------------------------------
(* u8 bit operations, as the bitflags! types implement them *)

RECURSIVE BitAnd(_, _)
BitAnd(a, b) ==
    IF a = 0 \/ b = 0 THEN 0
    ELSE (a % 2) * (b % 2) + 2 * BitAnd(a \div 2, b \div 2)

RECURSIVE BitOr(_, _)
BitOr(a, b) ==
    IF a = 0 THEN b
    ELSE IF b = 0 THEN a
    ELSE (IF a % 2 = 1 \/ b % 2 = 1 THEN 1 ELSE 0) + 2 * BitOr(a \div 2, b \div 2)

\* Command1 flags
SENSE == 128
AUTO_MANUAL_SCAN == 16
CAMERA_ON_OFF == 8
IRIS_CLOSE == 4
IRIS_OPEN == 2
FOCUS_NEAR == 1

\* Command2 flags
FOCUS_FAR == 128
ZOOM_WIDE == 64
ZOOM_TELE == 32
DOWN == 16
UP == 8
LEFT == 4
RIGHT == 2

\* Direction flags
Direction_DOWN == 16
Direction_UP == 8
Direction_LEFT == 4
Direction_RIGHT == 2

\* Command1::all(), Command2::all(), Direction::all()
Command1_all ==
    BitOr(SENSE, BitOr(AUTO_MANUAL_SCAN, BitOr(CAMERA_ON_OFF,
        BitOr(IRIS_CLOSE, BitOr(IRIS_OPEN, FOCUS_NEAR)))))

Command2_all ==
    BitOr(FOCUS_FAR, BitOr(ZOOM_WIDE, BitOr(ZOOM_TELE,
        BitOr(DOWN, BitOr(UP, BitOr(LEFT, RIGHT))))))

Direction_all ==
    BitOr(Direction_DOWN, BitOr(Direction_UP, BitOr(Direction_LEFT, Direction_RIGHT)))

\* the values of each bitflags type: the bytes with no unknown bit
Command1 == {b \in Byte : BitAnd(b, Command1_all) = b}
Command2 == {b \in Byte : BitAnd(b, Command2_all) = b}
Direction == {b \in Byte : BitAnd(b, Direction_all) = b}

\* mutant of Command2::from_bits: None also for a combination of flags
Command2_from_bits_one_flag(bits) ==
    IF bits \in {0, FOCUS_FAR, ZOOM_WIDE, ZOOM_TELE, DOWN, UP, LEFT, RIGHT}
    THEN [some |-> TRUE, bits |-> bits]
    ELSE [some |-> FALSE, bits |-> 0]

\* Command2::from_bits: None when a bit is no flag of Command2
Command2_from_bits(bits) ==
    IF BitAnd(bits, Command2_all) = bits
    THEN [some |-> TRUE, bits |-> bits]
    ELSE [some |-> FALSE, bits |-> 0]

---------------------------------------------------------------------------
(* checksum: a u32 accumulator, kept as two 16-bit halves *)

U32Zero == [hi |-> 0, lo |-> 0, overflow |-> FALSE]

\* mutant of the accumulator: the sum is kept in a u8
U32AddByte_u8(acc, b) ==
    [hi |-> 0, lo |-> (acc.lo + b) % 256,
     overflow |-> acc.overflow \/ acc.lo + b >= 256]

\* acc + u32::from(b); overflow records a sum past u32::MAX
U32AddByte(acc, b) ==
    LET lo == acc.lo + b
        hi == acc.hi + (lo \div 65536)
    IN  [hi |-> hi % 65536, lo |-> lo % 65536,
         overflow |-> acc.overflow \/ hi >= 65536]

RECURSIVE checksum_sum(_)
checksum_sum(data) ==
    IF Len(data) = 0 THEN U32Zero
    ELSE U32AddByte(checksum_sum(SubSeq(data, 1, Len(data) - 1)), data[Len(data)])

checksum(data) == BitAnd(checksum_sum(data).lo, 255)

---------------------------------------------------------------------------
(* Speed and speed_to_byte *)

Range(q) == [kind |-> "Range", nan |-> FALSE, q |-> q]
RangeNaN == [kind |-> "Range", nan |-> TRUE, q |-> 0]
Turbo == [kind |-> "Turbo", nan |-> FALSE, q |-> 0]

\* number of low bits an f32 drops from the scaled integer n (24-bit significand)
F32Shift(n) == CHOOSE s \in 0..8 : n \div (2^s) < F32One /\ (s = 0 \/ n \div (2^(s - 1)) >= F32One)

\* n rounded to an f32, to nearest, ties to even
F32Round(n) ==
    LET u == 2^F32Shift(n)
        low == n % u
        base == n - low
    IN  IF 2 * low < u THEN base
        ELSE IF 2 * low > u THEN base + u
        ELSE IF (base \div u) % 2 = 0 THEN base ELSE base + u

\* the f32 product of x (scaled) and the integer k
F32MulInt(x, k) == F32Round(x * k)

\* mutant of f32::round: the fraction is cut off
F32RoundToInt_trunc(x) == x \div F32One

\* f32::round of a non-negative x: to nearest integer, halves away from zero
F32RoundToInt(x) == (x + F32One \div 2) \div F32One

\* "as u8" of an integer-valued float: saturating
AsU8(n) == IF n < 0 THEN 0 ELSE IF n > 255 THEN 255 ELSE n

\* The divisor SPEED_MAX_RANGE - SPEED_MIN_RANGE is 1.0 and the addend
\* SPEED_MIN_RANGE is 0.0: both operations are exact.  Every comparison with
\* a NaN is false, so a NaN is not clamped; "as u8" of a NaN is 0.
speed_to_byte(speed) ==
    IF speed.kind = "Turbo" THEN SPEED_TURBO_BYTE
    ELSE IF speed.nan THEN 0
    ELSE LET range == IF speed.q > SPEED_MAX_RANGE THEN SPEED_MAX_RANGE
                      ELSE IF speed.q < SPEED_MIN_RANGE THEN SPEED_MIN_RANGE
                      ELSE speed.q
         IN  AsU8(F32RoundToInt(F32MulInt(range, 63)))

---------------------------------------------------------------------------
(* Message *)

Ok(m) == [ok |-> TRUE, msg |-> m, kind |-> "", description |-> <<>>]
Err(k, d) == [ok |-> FALSE, msg |-> <<>>, kind |-> k, description |-> d]

\* mutant of fill_checksum: the range starts at the sync byte
fill_checksum_with_sync(msg) ==
    [msg EXCEPT ![MESSAGE_SIZE] = checksum(SubSeq(msg, 1, MESSAGE_SIZE))]

\* self.0[MESSAGE_SIZE - 1] = checksum(&self.0[1..MESSAGE_SIZE])
fill_checksum(msg) ==
    [msg EXCEPT ![MESSAGE_SIZE] = checksum(SubSeq(msg, 2, MESSAGE_SIZE))]

Message_new(address, cmd1, cmd2, data1, data2) ==
    fill_checksum(<<SYNC_BYTE, address, cmd1, cmd2, data1, data2, 0>>)

\* mutant of Message::from_bytes: the checksum is not filled
Message_from_bytes_unfilled(address, words) ==
    <<SYNC_BYTE, address, words[1], words[2], words[3], words[4], 0>>

Message_from_bytes(address, words) ==
    fill_checksum(<<SYNC_BYTE, address, words[1], words[2], words[3], words[4], 0>>)

\* Error::new(ErrorKind::InvalidValue, description); a description is the
\* sequence of its words
arg_error(description) == Err("InvalidValue", description)

\* mutant of validate_preset_id: every id is accepted
validate_preset_id_any(idx) == Ok(<<>>)

\* Result<()>
validate_preset_id(idx) ==
    IF idx # 0 THEN Ok(<<>>) ELSE arg_error(<<"Invalid", "Present", "ID">>)

\* validate_preset_id(preset_id)?; Ok(Message::from_bytes(..))
set_preset(address, preset_id) ==
    LET v == validate_preset_id(preset_id)
    IN  IF ~v.ok THEN v ELSE Ok(Message_from_bytes(address, <<0, 3, 0, preset_id>>))

clear_preset(address, preset_id) ==
    LET v == validate_preset_id(preset_id)
    IN  IF ~v.ok THEN v ELSE Ok(Message_from_bytes(address, <<0, 5, 0, preset_id>>))

go_to_preset(address, preset_id) ==
    LET v == validate_preset_id(preset_id)
    IN  IF ~v.ok THEN v ELSE Ok(Message_from_bytes(address, <<0, 7, 0, preset_id>>))

\* mutant of flip_180: the preset number of "Go To Zero Pan" is sent
flip_180_as_zero_pan(address) == Ok(Message_from_bytes(address, <<0, 7, 0, 34>>))

flip_180(address) == Ok(Message_from_bytes(address, <<0, 7, 0, 33>>))

go_to_zero_pan(address) == Ok(Message_from_bytes(address, <<0, 7, 0, 34>>))

\* a char is modelled by its code point

\* mutant of char::is_ascii: every character of one byte passes
is_ascii_one_byte(character) == character <= 255

\* char::is_ascii
is_ascii(character) == character <= 127

\* character as u8 keeps the low byte of the code point
char_as_u8(character) == character % 256

write_char_to_screen(address, column, character) ==
    IF is_ascii(character)
    THEN LET ascii == char_as_u8(character)
         IN  Ok(Message_from_bytes(address, <<0, 21, column, ascii>>))
    ELSE arg_error(<<"Invalid", "ASCII", "character">>)

\* enum AdjustmentValue { New(u16), Delta(i16) }
AdjustmentValue_New(value) == [kind |-> "New", value |-> value]
AdjustmentValue_Delta(value) == [kind |-> "Delta", value |-> value]

\* mutant of u16::to_be_bytes: the low byte comes first
u16_to_le_bytes(value) == <<value % 256, value \div 256>>

\* u16::to_be_bytes
u16_to_be_bytes(value) == <<value \div 256, value % 256>>

\* i16::to_be_bytes: the bytes of the 16-bit two's complement pattern
i16_to_be_bytes(value) == u16_to_be_bytes(value % 65536)

adjust(address, opcode, ctrl) ==
    LET cmd == IF ctrl.kind = "New" THEN 0 ELSE 1
        data == IF ctrl.kind = "New" THEN u16_to_be_bytes(ctrl.value)
                                     ELSE i16_to_be_bytes(ctrl.value)
    IN  Ok(Message_from_bytes(address, <<cmd, opcode, data[1], data[2]>>))

adjust_line_lock_phase_delay(address, ctrl) == adjust(address, 57, ctrl)
adjust_white_balance_rb(address, ctrl) == adjust(address, 59, ctrl)
adjust_white_balance_mg(address, ctrl) == adjust(address, 61, ctrl)
adjust_gain(address, ctrl) == adjust(address, 63, ctrl)
adjust_auto_iris_level(address, ctrl) == adjust(address, 65, ctrl)
adjust_auto_iris_peak(address, ctrl) == adjust(address, 67, ctrl)

\* impl From<[u8; MESSAGE_SIZE]> for Message: Message(array)
Message_from(array) == array

\* mutant of TryFrom<&[u8]>: a longer slice is accepted and cut
Message_try_from_prefix(value) ==
    IF Len(value) >= MESSAGE_SIZE
    THEN Ok([i \in 1..MESSAGE_SIZE |-> value[i]])
    ELSE Err("str", <<"The", "slice", "must", "contain", "exactly", "7", "bytes">>)

\* impl TryFrom<&[u8]> for Message; its error is a &'static str
Message_try_from(value) ==
    IF Len(value) = MESSAGE_SIZE
    THEN Ok([i \in 1..MESSAGE_SIZE |-> value[i]])
    ELSE Err("str", <<"The", "slice", "must", "contain", "exactly", "7", "bytes">>)

\* impl AsRef<[u8]> for Message: &self.0
as_ref(msg) == msg

---------------------------------------------------------------------------
(* MessageBuilder *)

MessageBuilder_new(address) ==
    [address |-> address, cmd1 |-> 0, cmd2 |-> 0, data1 |-> 0, data2 |-> 0]

\* only evaluated where Command2::from_bits returned Some: unwrap() of it
direction(self, d) ==
    [self EXCEPT !.cmd2 = BitOr(@, Command2_from_bits(d).bits)]

down(self) == direction(self, Direction_DOWN)
up(self) == direction(self, Direction_UP)
left(self) == direction(self, Direction_LEFT)
right(self) == direction(self, Direction_RIGHT)

\* mutant of pan: the speed byte is merged into data1 like a flag
pan_merging(self, speed) == [self EXCEPT !.data1 = BitOr(@, speed_to_byte(speed))]

pan(self, speed) == [self EXCEPT !.data1 = speed_to_byte(speed)]
tilt(self, speed) == [self EXCEPT !.data2 = speed_to_byte(speed)]

\* mutant of stop: the speeds are not reset
stop_keeps_speeds(self) == [self EXCEPT !.cmd1 = 0, !.cmd2 = 0]

\* mutant of stop: the whole builder is reset, the address too
stop_resets_address(self) == MessageBuilder_new(0)

stop(self) == [self EXCEPT !.cmd1 = 0, !.cmd2 = 0, !.data1 = 0, !.data2 = 0]

zoom_in(self) == [self EXCEPT !.cmd2 = BitOr(@, ZOOM_TELE)]
zoom_out(self) == [self EXCEPT !.cmd2 = BitOr(@, ZOOM_WIDE)]
camera_on(self) == [self EXCEPT !.cmd1 = BitOr(@, BitOr(SENSE, CAMERA_ON_OFF))]
\* mutant of camera_off: the sense bit is cleared
camera_off_clears_sense(self) ==
    [self EXCEPT !.cmd1 = BitOr(BitAnd(@, 255 - SENSE), CAMERA_ON_OFF)]

camera_off(self) == [self EXCEPT !.cmd1 = BitOr(@, CAMERA_ON_OFF)]
auto_scan(self) == [self EXCEPT !.cmd1 = BitOr(@, BitOr(SENSE, AUTO_MANUAL_SCAN))]
manual_scan(self) == [self EXCEPT !.cmd1 = BitOr(@, AUTO_MANUAL_SCAN)]
close_iris(self) == [self EXCEPT !.cmd1 = BitOr(@, IRIS_CLOSE)]
open_iris(self) == [self EXCEPT !.cmd1 = BitOr(@, IRIS_OPEN)]
focus_far(self) == [self EXCEPT !.cmd2 = BitOr(@, FOCUS_FAR)]
focus_near(self) == [self EXCEPT !.cmd1 = BitOr(@, FOCUS_NEAR)]

\* mutant of From<MessageBuilder>: data1 and data2 are exchanged
Message_from_builder_swapped(draft) ==
    Message_new(draft.address, draft.cmd1, draft.cmd2, draft.data2, draft.data1)

\* impl From<MessageBuilder> for Message
Message_from_builder(draft) ==
    Message_new(draft.address, draft.cmd1, draft.cmd2, draft.data1, draft.data2)

finalize(self) == Ok(Message_from_builder(self))

---------------------------------------------------------------------------
(* Response, src/src/response.rs *)

RESPONSE_SIZE_NONE == 0
RESPONSE_SIZE_GENERAL == 4
RESPONSE_SIZE_EXTENDED == 7
RESPONSE_SIZE_QUERY == 18
RESPONSE_SIZE_MAX == RESPONSE_SIZE_QUERY

\* Response { kind, data: [u8; RESPONSE_SIZE_MAX] }
Response(kind, data) == [kind |-> kind, data |-> data]

\* response.data[..n].copy_from_slice(value) on data: [0; RESPONSE_SIZE_MAX]
CopyFromSlice(n, value) ==
    [i \in 1..RESPONSE_SIZE_MAX |-> IF i <= n THEN value[i] ELSE 0]

\* mutant of TryFrom<&[u8]> for Response: a frame that does not start with
\* the sync byte is refused
Response_try_from_checks_sync(value) ==
    IF Len(value) = RESPONSE_SIZE_NONE
    THEN Ok(Response("None", CopyFromSlice(0, value)))
    ELSE IF Len(value) \in {RESPONSE_SIZE_GENERAL, RESPONSE_SIZE_EXTENDED,
                            RESPONSE_SIZE_QUERY} /\ value[1] = SYNC_BYTE
    THEN Ok(Response(CASE Len(value) = RESPONSE_SIZE_GENERAL -> "General"
                       [] Len(value) = RESPONSE_SIZE_EXTENDED -> "Extended"
                       [] OTHER -> "Query",
                     CopyFromSlice(Len(value), value)))
    ELSE Err("InvalidValue", <<"Invalid", "response", "length", ToString(Len(value))>>)

\* impl TryFrom<&[u8]> for Response; the error is
\* Error::InvalidValue(format!("Invalid response length {}", l))
Response_try_from(value) ==
    CASE Len(value) = RESPONSE_SIZE_NONE ->
            Ok(Response("None", CopyFromSlice(0, value)))
      [] Len(value) = RESPONSE_SIZE_GENERAL ->
            Ok(Response("General", CopyFromSlice(RESPONSE_SIZE_GENERAL, value)))
      [] Len(value) = RESPONSE_SIZE_EXTENDED ->
            Ok(Response("Extended", CopyFromSlice(RESPONSE_SIZE_EXTENDED, value)))
      [] Len(value) = RESPONSE_SIZE_QUERY ->
            Ok(Response("Query", CopyFromSlice(RESPONSE_SIZE_QUERY, value)))
      [] OTHER ->
            Err("InvalidValue",
                <<"Invalid", "response", "length", ToString(Len(value))>>)

Response_kind(self) == self.kind

\* mutant of Response::bytes: the whole backing array is returned
Response_bytes_whole(self) == self.data

\* &self.data[..RESPONSE_SIZE_<kind>]
Response_bytes(self) ==
    CASE self.kind = "None" -> SubSeq(self.data, 1, RESPONSE_SIZE_NONE)
      [] self.kind = "General" -> SubSeq(self.data, 1, RESPONSE_SIZE_GENERAL)
      [] self.kind = "Extended" -> SubSeq(self.data, 1, RESPONSE_SIZE_EXTENDED)
      [] self.kind = "Query" -> SubSeq(self.data, 1, RESPONSE_SIZE_QUERY)

\* mutant of checksum_is_valid: the Query arm leaves out the command's checksum
checksum_is_valid_query_alone(self, cmd_cksm) ==
    CASE self.kind = "None" -> TRUE
      [] self.kind = "General" -> checksum(<<cmd_cksm, self.data[3]>>) = self.data[4]
      [] self.kind = "Extended" -> checksum(SubSeq(self.data, 2, 6)) = self.data[7]
      [] self.kind = "Query" -> checksum(SubSeq(self.data, 2, 17)) = self.data[18]

\* mutant of checksum_is_valid: the Extended arm adds the command's checksum
checksum_is_valid_extended_adds(self, cmd_cksm) ==
    CASE self.kind = "None" -> TRUE
      [] self.kind = "General" -> checksum(<<cmd_cksm, self.data[3]>>) = self.data[4]
      [] self.kind = "Extended" ->
            BitAnd(checksum(SubSeq(self.data, 2, 6)) + cmd_cksm, 255) = self.data[7]
      [] self.kind = "Query" ->
            BitAnd(checksum(SubSeq(self.data, 2, 17)) + cmd_cksm, 255) = self.data[18]

\* Response::checksum_is_valid; data[i] of the code is self.data[i + 1] here
checksum_is_valid(self, cmd_cksm) ==
    CASE self.kind = "None" -> TRUE
      [] self.kind = "General" -> checksum(<<cmd_cksm, self.data[3]>>) = self.data[4]
      [] self.kind = "Extended" -> checksum(SubSeq(self.data, 2, 6)) = self.data[7]
      [] self.kind = "Query" ->
            BitAnd(checksum(SubSeq(self.data, 2, 17)) + cmd_cksm, 255) = self.data[18]

---------------------------------------------------------------------------
(* PelcoDPort, src/src/port.rs.  send_message is write_all(message.as_ref()):
   the loop of std::io::Write::write_all calls write() on the transport until
   the buffer is empty.  Each call of write() is one step, because its outcome
   is the transport's choice. *)

NoResult == [ok |-> FALSE, msg |-> <<>>, kind |-> "none", description |-> <<>>]

\* impl From<std::io::Error> for Error: Error::new(ErrorKind::Io(e), "IO error")
Error_from_io(e) == Err(<<"Io", e>>, <<"IO", "error">>)

\* Ok(()) of send_message
OkUnit == Ok(<<>>)

\* the port before any send_message
PortNew ==
    [wire |-> <<>>,             \* bytes the transport has accepted, in order
     log |-> <<>>,              \* the finished calls: [message, result]
     message |-> <<>>,          \* the message of the call in progress
     buf |-> <<>>,              \* what write_all has still to write
     busy |-> FALSE,            \* a send_message call is in progress
     interrupted |-> FALSE]     \* the call in progress saw ErrorKind::Interrupted

\* mutant of write_all: one write() call, the number of bytes it accepted
\* is not looked at
write_rest(buf, n) == <<>>

\* write_all: Ok(n) => buf = &buf[n..]
write_all_rest(buf, n) == SubSeq(buf, n + 1, Len(buf))

PortDriving == call.fn = "port"

\* send_message returns result
PortReturn(p, result) ==
    [p EXCEPT !.log = Append(@, [message |-> p.message, result |-> result]),
              !.message = <<>>, !.buf = <<>>, !.busy = FALSE]

\* pub fn send_message(&mut self, message: Message): write_all starts
SendMessage(message) ==
    /\ PortDriving
    /\ ~port.busy
    /\ Len(port.log) < MaxSends
    /\ port' = [port EXCEPT !.message = message, !.buf = as_ref(message),
                            !.busy = TRUE, !.interrupted = FALSE]
    /\ UNCHANGED <<builder, addr0, nops, lastOp, out, panicked, call>>

\* self.0.write(buf) returns Ok(n), 0 < n <= buf.len(): the transport has
\* taken the first n bytes; when nothing is left write_all returns Ok(())
\* and so does send_message
WriteAccepts(n) ==
    /\ PortDriving
    /\ port.busy
    /\ n \in 1..Len(port.buf)
    /\ LET rest == write_all_rest(port.buf, n)
           p == [port EXCEPT !.wire = @ \o SubSeq(port.buf, 1, n), !.buf = rest]
       IN  port' = IF rest = <<>> THEN PortReturn(p, OkUnit) ELSE p
    /\ UNCHANGED <<builder, addr0, nops, lastOp, out, panicked, call>>

\* self.0.write(buf) returns Ok(0): write_all returns
\* Err(ErrorKind::WriteZero), which `?` converts with From<std::io::Error>
WriteZero ==
    /\ PortDriving
    /\ port.busy
    /\ port' = PortReturn(port, Error_from_io("WriteZero"))
    /\ UNCHANGED <<builder, addr0, nops, lastOp, out, panicked, call>>

\* self.0.write(buf) returns Err(e) of kind Interrupted: write_all calls
\* write() again with the same buffer
WriteInterrupted ==
    /\ PortDriving
    /\ port.busy
    /\ port' = [port EXCEPT !.interrupted = TRUE]
    /\ UNCHANGED <<builder, addr0, nops, lastOp, out, panicked, call>>

\* self.0.write(buf) returns Err(e) of another kind: write_all returns it
WriteFails ==
    /\ PortDriving
    /\ port.busy
    /\ port' = PortReturn(port, Error_from_io("Other"))
    /\ UNCHANGED <<builder, addr0, nops, lastOp, out, panicked, call>>

\* the messages sent: the frame of test_send_message_with_port and the
\* one of the example in the documentation of PelcoDPort
PortMessages == {Message_from(<<1, 2, 3, 4, 5, 6, 7>>), flip_180(10).msg}

PortCall == [fn |-> "port", done |-> TRUE]

InitPort ==
    /\ addr0 = 0
    /\ builder = MessageBuilder_new(addr0)
    /\ nops = 0
    /\ lastOp = "new"
    /\ out = NoResult
    /\ panicked = FALSE
    /\ call = PortCall
    /\ port = PortNew

---------------------------------------------------------------------------
(* The builder, driven by its client *)

NoCall == [fn |-> "none", done |-> TRUE]

\* addresses the model creates builders and messages with
Addresses == {10, 255}

\* 0.603f32 is 10116661 / 2^24
F32_0_603 == 10116661

\* Speed arguments of pan() and tilt(): 0.5 and Turbo
SpeedArgs == {Range(F32One \div 2), Turbo}

Driving == call.fn = "none" /\ ~panicked

\* one builder operation of kind name, which returns &mut Self
BuilderOp(name, next) ==
    /\ Driving
    /\ nops < MaxOps
    /\ builder' = next
    /\ nops' = nops + 1
    /\ lastOp' = name
    /\ UNCHANGED <<addr0, out, panicked, call, port>>

DoDirection(d) ==
    IF Command2_from_bits(d).some
    THEN BuilderOp("flag", direction(builder, d))
    ELSE /\ Driving
         /\ nops < MaxOps
         /\ panicked' = TRUE
         /\ UNCHANGED <<builder, addr0, nops, lastOp, out, call, port>>

DoDown == BuilderOp("flag", down(builder))
DoUp == BuilderOp("flag", up(builder))
DoLeft == BuilderOp("flag", left(builder))
DoRight == BuilderOp("flag", right(builder))
DoPan(speed) == BuilderOp("speed", pan(builder, speed))
DoTilt(speed) == BuilderOp("speed", tilt(builder, speed))
DoStop == BuilderOp("stop", stop(builder))
DoZoomIn == BuilderOp("flag", zoom_in(builder))
DoZoomOut == BuilderOp("flag", zoom_out(builder))
DoCameraOn == BuilderOp("flag", camera_on(builder))
DoCameraOff == BuilderOp("flag", camera_off(builder))
DoAutoScan == BuilderOp("flag", auto_scan(builder))
DoManualScan == BuilderOp("flag", manual_scan(builder))
DoCloseIris == BuilderOp("flag", close_iris(builder))
DoOpenIris == BuilderOp("flag", open_iris(builder))
DoFocusFar == BuilderOp("flag", focus_far(builder))
DoFocusNear == BuilderOp("flag", focus_near(builder))

\* mutant of finalize: the builder is left as new after the call
DoFinalize_consuming ==
    /\ Driving
    /\ out' = finalize(builder)
    /\ lastOp' = "finalize"
    /\ builder' = MessageBuilder_new(builder.address)
    /\ UNCHANGED <<addr0, nops, panicked, call, port>>

\* finalize() works on a copy of the builder (MessageBuilder is Copy)
DoFinalize ==
    /\ Driving
    /\ out' = finalize(builder)
    /\ lastOp' = "finalize"
    /\ UNCHANGED <<builder, addr0, nops, panicked, call, port>>

InitBuilder ==
    /\ addr0 \in Addresses
    /\ builder = MessageBuilder_new(addr0)
    /\ nops = 0
    /\ lastOp = "new"
    /\ out = NoResult
    /\ panicked = FALSE
    /\ call = NoCall
    /\ port = PortNew

---------------------------------------------------------------------------
(* One call of a constructor, a conversion or a free function *)

\* bytes the calls are made with
SampleBytes == {0, 1, 127, 128, 255}

\* all sequences over S of length at most n
SeqUpTo(S, n) == UNION {[1..k -> S] : k \in 0..n}

Pending(fn, args) == [fn |-> fn, done |-> FALSE, args |-> args, ret |-> <<>>]

NewCalls ==
    {Pending("new", <<a, c1, c2, d1, d2>>) :
        a \in Addresses \cup {0}, c1 \in Command1, c2 \in {0, 144, 254},
        d1 \in {0, 255}, d2 \in {64, 255}}

FromBytesCalls ==
    {Pending("from_bytes", <<a, w>>) :
        a \in Addresses \cup {0, 23}, w \in [1..4 -> SampleBytes] \cup {<<200, 9, 145, 17>>}}

PresetCalls ==
    {Pending(fn, <<a, id>>) :
        fn \in {"set_preset", "clear_preset", "go_to_preset"},
        a \in Addresses \cup {0}, id \in Byte}

FromCalls ==
    {Pending("from", array) :
        array \in [1..MESSAGE_SIZE -> {0, 77, 255}] \cup {<<11, 22, 33, 44, 55, 66, 77>>}}

TryFromCalls ==
    {Pending("try_from", value) : value \in SeqUpTo({11, 255}, MaxSliceLen)}

\* arbitrary short inputs, the longest inputs of the codec filled with 0xFF,
\* and the example of the Pelco D specification
ChecksumCalls ==
    {Pending("checksum", data) :
        data \in SeqUpTo(SampleBytes, MaxLen)
                 \cup {[i \in 1..n |-> 255] : n \in 0..(RESPONSE_SIZE_QUERY - 1)}
                 \cup {<<10, 136, 144, 0, 64>>}}

\* k/16 for k in -2..MaxSpeedIdx; 0.603; the f32 neighbours of 0.5, of 0.0 and
\* of 1.0; 8654913 / 2^24, whose exact product with 63 is 32.5 - 2^-24; a NaN;
\* Turbo
SpeedInputs ==
    {Range(k * (F32One \div 16)) : k \in (-2)..MaxSpeedIdx}
    \cup {Range(q) : q \in {F32_0_603, F32One \div 2 - 1, F32One \div 2 + 1,
                            -1, 1, F32One - 1, F32One + 2, 8654913}}
    \cup {RangeNaN, Turbo}

SpeedCalls == {Pending("speed_to_byte", speed) : speed \in SpeedInputs}

\* slices handed to Response::try_from: every length up to MaxResponseLen,
\* filled with one byte, counting up or counting down
ResponseSlices ==
    UNION {{[i \in 1..n |-> f] : f \in SampleBytes}
               \cup {[i \in 1..n |-> i - 1], [i \in 1..n |-> 255 - i]}
           : n \in 0..MaxResponseLen}

ResponseTryFromCalls == {Pending("response_try_from", b) : b \in ResponseSlices}

\* the slices of S that Response::try_from accepts
Accepted(S) == {b \in S : Response_try_from(b).ok}

ResponseKinds == {"None", "General", "Extended", "Query"}

\* the data of test_get_response_bytes: 0, 1, .., 17
CountingData == [i \in 1..RESPONSE_SIZE_MAX |-> i - 1]

\* bytes() on a Response that try_from built from a slice, and on a
\* Response written out field by field as test_get_response_bytes does
BytesCalls ==
    {Pending("bytes", [self |-> Response_try_from(b).msg, built |-> TRUE, from |-> b])
        : b \in Accepted(ResponseSlices)}
    \cup {Pending("bytes", [self |-> Response(k, CountingData), built |-> FALSE,
                            from |-> <<>>])
        : k \in ResponseKinds}

\* responses of the Pelco D examples in the tests of response.rs
GeneralExample == <<255, 1, 0, 42>>
ExtendedExample == <<255, 1, 0, 89, 0, 0, 90>>
QueryExample == <<255, 1, 68, 68, 53, 51, 67, 66, 87, 0, 0, 0, 0, 0, 0, 0, 0, 19>>
QueryExampleCmdCksm == 70

GeneralSlices ==
    {<<s, a, x, y>> : s \in {0, 255}, a \in {1, 255}, x \in SampleBytes,
                      y \in SampleBytes} \cup {GeneralExample}

ExtendedSlices == [1..RESPONSE_SIZE_EXTENDED -> {0, 1, 255}] \cup {ExtendedExample}

QuerySlices ==
    {[QueryExample EXCEPT ![RESPONSE_SIZE_QUERY] = x] : x \in {19, 20, 205}}
        \cup {[QueryExample EXCEPT ![2] = x] : x \in {2, 255}}
        \cup {[i \in 1..RESPONSE_SIZE_QUERY |-> f] : f \in SampleBytes}
        \cup {[i \in 1..RESPONSE_SIZE_QUERY |-> IF i = 1 THEN 255 ELSE 16 * i]}

ChecksumIsValidCall(b, c) ==
    Pending("checksum_is_valid",
            [self |-> Response_try_from(b).msg, from |-> b, cmd_cksm |-> c])

ChecksumIsValidCalls ==
    {ChecksumIsValidCall(b, c) : b \in Accepted({<<>>}), c \in SampleBytes}
    \cup {ChecksumIsValidCall(b, c) : b \in Accepted(GeneralSlices),
                                      c \in SampleBytes \cup {42}}
    \cup {ChecksumIsValidCall(b, c) : b \in Accepted(ExtendedSlices),
                                      c \in {0, QueryExampleCmdCksm}}
    \cup {ChecksumIsValidCall(b, c) : b \in Accepted(QuerySlices),
                                      c \in SampleBytes \cup {QueryExampleCmdCksm, 15}}

SpecialPresetCalls ==
    {Pending(fn, a) : fn \in {"flip_180", "go_to_zero_pan"}, a \in Byte}

\* characters: all of U+0000..U+00FF, and some of two, three and four
\* UTF-8 bytes, the last one being char::MAX
Chars == 0..255 \cup {256, 326, 383, 22909, 55295, 57344, 65285, 128512, 1114111}

WriteCharCalls ==
    {Pending("write_char_to_screen", <<a, column, ch>>) :
        a \in {11, 255}, column \in {0, 32, 255}, ch \in Chars}

\* AdjustmentValue arguments: the values within MaxAdjust of 0 and of the
\* ends of u16 and i16, and some in between
AdjustmentValues ==
    {AdjustmentValue_New(v) :
        v \in (0..MaxAdjust) \cup ((65535 - MaxAdjust)..65535)
                \cup {4660, 32767, 32768, 43981}}
    \cup {AdjustmentValue_Delta(d) :
        d \in ((0 - MaxAdjust)..MaxAdjust) \cup ((0 - 32768)..(MaxAdjust - 32768))
                \cup ((32767 - MaxAdjust)..32767) \cup {4660, 0 - 4660}}

AdjustFns ==
    {"adjust_line_lock_phase_delay", "adjust_white_balance_rb",
     "adjust_white_balance_mg", "adjust_gain", "adjust_auto_iris_level",
     "adjust_auto_iris_peak"}

AdjustCalls ==
    {Pending(fn, <<a, ctrl>>) : fn \in AdjustFns, a \in {1}, ctrl \in AdjustmentValues}
    \cup {Pending(fn, <<255, ctrl>>) :
            fn \in AdjustFns,
            ctrl \in {AdjustmentValue_New(65535), AdjustmentValue_Delta(0 - 1),
                      AdjustmentValue_Delta(0 - 32768)}}

\* builders with any Command2 value in cmd2
SampleBuilders ==
    {[address |-> 10, cmd1 |-> c1, cmd2 |-> c2, data1 |-> 32, data2 |-> 255] :
        c1 \in {0, BitOr(SENSE, CAMERA_ON_OFF)}, c2 \in Command2}

\* pan(speed) and tilt(speed) on builders that hold speeds already
SpeedBuilders ==
    {[address |-> 10, cmd1 |-> BitOr(SENSE, CAMERA_ON_OFF), cmd2 |-> BitOr(DOWN, RIGHT),
      data1 |-> d1, data2 |-> d2] : d1 \in {0, 32, 255}, d2 \in {0, 64, 255}}

PanTiltCalls ==
    {Pending(fn, [self |-> b, speed |-> speed]) :
        fn \in {"pan", "tilt"}, b \in SpeedBuilders, speed \in SpeedInputs}

\* Messages as their constructors return them, each with the name of the
\* constructor: Message::new, from_bytes, extended constructors, finalize
ConstructedMessages ==
    {[ctor |-> "new", message |-> Message_new(a, c1, c2, d1, d2)] :
        a \in SampleBytes, c1 \in {0, BitOr(SENSE, CAMERA_ON_OFF)},
        c2 \in {0, BitOr(FOCUS_FAR, DOWN)}, d1 \in {0, 64, 255}, d2 \in {0, 64, 255}}
    \cup {[ctor |-> "from_bytes", message |-> Message_from_bytes(a, w)] :
        a \in {0, 1, 255}, w \in [1..4 -> {0, 127, 255}]}
    \cup {[ctor |-> "go_to_preset", message |-> go_to_preset(a, id).msg] :
        a \in {1, 255}, id \in {1, 33, 255}}
    \cup {[ctor |-> "flip_180", message |-> flip_180(a).msg] : a \in {1, 255}}
    \cup {[ctor |-> "write_char_to_screen",
           message |-> write_char_to_screen(a, 32, ch).msg] :
        a \in {11, 255}, ch \in {0, 70, 127}}
    \cup {[ctor |-> "adjust_gain", message |-> adjust_gain(a, ctrl).msg] :
        a \in {1, 255},
        ctrl \in {AdjustmentValue_New(65535), AdjustmentValue_Delta(0 - 2)}}
    \cup {[ctor |-> "finalize", message |-> finalize(b).msg] :
        b \in SampleBuilders \cup SpeedBuilders}

\* Response::try_from(m.as_ref()) and then checksum_is_valid(c)
OwnFrameCalls ==
    {Pending("checksum_is_valid_of_message",
             [ctor |-> m.ctor, message |-> m.message, cmd_cksm |-> c]) :
        m \in ConstructedMessages, c \in SampleBytes}

\* direction(d), down(), up(), left() and right() on these builders; the
\* last four pass their own Direction
DirectionCalls ==
    {Pending("direction", [self |-> b, direction |-> d]) :
        b \in SampleBuilders, d \in Direction}
    \cup {Pending("down", [self |-> b, direction |-> Direction_DOWN]) : b \in SampleBuilders}
    \cup {Pending("up", [self |-> b, direction |-> Direction_UP]) : b \in SampleBuilders}
    \cup {Pending("left", [self |-> b, direction |-> Direction_LEFT]) : b \in SampleBuilders}
    \cup {Pending("right", [self |-> b, direction |-> Direction_RIGHT]) : b \in SampleBuilders}


\* the pending call of fn returns value
Return(fn, value) ==
    /\ call.fn = fn
    /\ ~call.done
    /\ call' = [call EXCEPT !.done = TRUE, !.ret = value]
    /\ UNCHANGED <<builder, addr0, nops, lastOp, out, panicked, port>>

CallNew ==
    Return("new", Message_new(call.args[1], call.args[2], call.args[3],
                              call.args[4], call.args[5]))

CallFromBytes == Return("from_bytes", Message_from_bytes(call.args[1], call.args[2]))
CallSetPreset == Return("set_preset", set_preset(call.args[1], call.args[2]))
CallClearPreset == Return("clear_preset", clear_preset(call.args[1], call.args[2]))
CallGoToPreset == Return("go_to_preset", go_to_preset(call.args[1], call.args[2]))
CallFrom == Return("from", Message_from(call.args))
CallTryFrom == Return("try_from", Message_try_from(call.args))
CallSpeedToByte == Return("speed_to_byte", speed_to_byte(call.args))
CallFlip180 == Return("flip_180", flip_180(call.args))
CallGoToZeroPan == Return("go_to_zero_pan", go_to_zero_pan(call.args))
CallWriteCharToScreen ==
    Return("write_char_to_screen",
           write_char_to_screen(call.args[1], call.args[2], call.args[3]))
CallAdjustLineLockPhaseDelay ==
    Return("adjust_line_lock_phase_delay",
           adjust_line_lock_phase_delay(call.args[1], call.args[2]))
CallAdjustWhiteBalanceRb ==
    Return("adjust_white_balance_rb", adjust_white_balance_rb(call.args[1], call.args[2]))
CallAdjustWhiteBalanceMg ==
    Return("adjust_white_balance_mg", adjust_white_balance_mg(call.args[1], call.args[2]))
CallAdjustGain == Return("adjust_gain", adjust_gain(call.args[1], call.args[2]))
CallAdjustAutoIrisLevel ==
    Return("adjust_auto_iris_level", adjust_auto_iris_level(call.args[1], call.args[2]))
CallAdjustAutoIrisPeak ==
    Return("adjust_auto_iris_peak", adjust_auto_iris_peak(call.args[1], call.args[2]))
\* the pending call of fn, which goes through direction(), returns value,
\* or the unwrap() of None panics
ReturnUnwrapped(fn, value) ==
    /\ call.fn = fn
    /\ ~call.done
    /\ IF Command2_from_bits(call.args.direction).some
       THEN Return(fn, value)
       ELSE /\ call' = [call EXCEPT !.done = TRUE]
            /\ panicked' = TRUE
            /\ UNCHANGED <<builder, addr0, nops, lastOp, out, port>>

CallDirection ==
    ReturnUnwrapped("direction", direction(call.args.self, call.args.direction))
CallDown == ReturnUnwrapped("down", down(call.args.self))
CallUp == ReturnUnwrapped("up", up(call.args.self))
CallLeft == ReturnUnwrapped("left", left(call.args.self))
CallRight == ReturnUnwrapped("right", right(call.args.self))
CallPan == Return("pan", pan(call.args.self, call.args.speed))
CallTilt == Return("tilt", tilt(call.args.self, call.args.speed))
\* let r = Response::try_from(m.as_ref())?; (r.kind(), r.checksum_is_valid(c))
CallChecksumIsValidOfMessage ==
    Return("checksum_is_valid_of_message",
           LET r == Response_try_from(as_ref(call.args.message))
           IN  IF r.ok
               THEN Ok([kind |-> Response_kind(r.msg),
                        valid |-> checksum_is_valid(r.msg, call.args.cmd_cksm)])
               ELSE r)
CallResponseTryFrom == Return("response_try_from", Response_try_from(call.args))
CallBytes == Return("bytes", Response_bytes(call.args.self))
CallChecksumIsValid ==
    Return("checksum_is_valid", checksum_is_valid(call.args.self, call.args.cmd_cksm))

\* a sum past u32::MAX panics in a debug build (and wraps in a release build)
CallChecksum ==
    /\ call.fn = "checksum"
    /\ ~call.done
    /\ call' = [call EXCEPT !.done = TRUE, !.ret = checksum(call.args)]
    /\ panicked' = checksum_sum(call.args).overflow
    /\ UNCHANGED <<builder, addr0, nops, lastOp, out, port>>

InitCall ==
    /\ addr0 = 0
    /\ builder = MessageBuilder_new(addr0)
    /\ nops = 0
    /\ lastOp = "new"
    /\ out = NoResult
    /\ panicked = FALSE
    /\ \/ call \in NewCalls
       \/ call \in FromBytesCalls
       \/ call \in PresetCalls
       \/ call \in FromCalls
       \/ call \in TryFromCalls
       \/ call \in ChecksumCalls
       \/ call \in SpeedCalls
       \/ call \in ResponseTryFromCalls
       \/ call \in BytesCalls
       \/ call \in ChecksumIsValidCalls
       \/ call \in SpecialPresetCalls
       \/ call \in WriteCharCalls
       \/ call \in AdjustCalls
       \/ call \in DirectionCalls
       \/ call \in PanTiltCalls
       \/ call \in OwnFrameCalls
    /\ port = PortNew

Init == InitBuilder \/ InitCall \/ InitPort

Next ==
    \/ \E d \in Direction : DoDirection(d)
    \/ DoDown
    \/ DoUp
    \/ DoLeft
    \/ DoRight
    \/ \E s \in SpeedArgs : DoPan(s)
    \/ \E s \in SpeedArgs : DoTilt(s)
    \/ DoStop
    \/ DoZoomIn
    \/ DoZoomOut
    \/ DoCameraOn
    \/ DoCameraOff
    \/ DoAutoScan
    \/ DoManualScan
    \/ DoCloseIris
    \/ DoOpenIris
    \/ DoFocusFar
    \/ DoFocusNear
    \/ DoFinalize
    \/ CallNew
    \/ CallFromBytes
    \/ CallSetPreset
    \/ CallClearPreset
    \/ CallGoToPreset
    \/ CallFrom
    \/ CallTryFrom
    \/ CallChecksum
    \/ CallSpeedToByte
    \/ CallFlip180
    \/ CallGoToZeroPan
    \/ CallWriteCharToScreen
    \/ CallAdjustLineLockPhaseDelay
    \/ CallAdjustWhiteBalanceRb
    \/ CallAdjustWhiteBalanceMg
    \/ CallAdjustGain
    \/ CallAdjustAutoIrisLevel
    \/ CallAdjustAutoIrisPeak
    \/ CallDirection
    \/ CallDown
    \/ CallUp
    \/ CallLeft
    \/ CallRight
    \/ CallPan
    \/ CallTilt
    \/ CallChecksumIsValidOfMessage
    \/ CallResponseTryFrom
    \/ CallBytes
    \/ CallChecksumIsValid
    \/ \E m \in PortMessages : SendMessage(m)
    \/ \E n \in 1..MESSAGE_SIZE : WriteAccepts(n)
    \/ WriteZero
    \/ WriteInterrupted
    \/ WriteFails

Spec == Init /\ [][Next]_vars

---------------------------------------------------------------------------
(* Properties *)

Returned(fn) == call.fn = fn /\ call.done

\* byte 0 is the sync byte and byte 6 is the sum of bytes 1..5 modulo 256
WellFormed(m) ==
    /\ Len(m) = 7
    /\ m[1] = 255
    /\ m[7] = (m[2] + m[3] + m[4] + m[5] + m[6]) % 256

\* C1: Message::new(address, cmd1, cmd2, data1, data2) and
\* Message::from_bytes(address, [w0, w1, w2, w3]) return the 7 bytes
\* [0xFF, address, cmd1, cmd2, data1, data2, c] with
\* c = (address + cmd1 + cmd2 + data1 + data2) mod 256: neither the sync byte
\* nor the checksum byte contributes to c.
C1_NewLayout ==
    /\ Returned("new") =>
        LET a == call.args
        IN  call.ret = <<255, a[1], a[2], a[3], a[4], a[5],
                         (a[1] + a[2] + a[3] + a[4] + a[5]) % 256>>
    /\ Returned("from_bytes") =>
        LET a == call.args[1]
            w == call.args[2]
        IN  call.ret = <<255, a, w[1], w[2], w[3], w[4],
                         (a + w[1] + w[2] + w[3] + w[4]) % 256>>

\* Message::new(10, SENSE|CAMERA_ON_OFF, FOCUS_FAR|DOWN, 0x00, 0x40) has
\* returned [0xFF, 0x0A, 0x88, 0x90, 0x00, 0x40, 0x62]
C1_Witness ==
    /\ Returned("new")
    /\ call.args = <<10, 136, 144, 0, 64>>
    /\ call.ret = <<255, 10, 136, 144, 0, 64, 98>>

\* C2 as stated: every Message obtained through the public API, From<[u8; 7]>
\* and TryFrom<&[u8]> included, has byte 0 = 0xFF and byte 6 = the sum of
\* bytes 1..5 modulo 256.
C2_EveryMessageWellFormed ==
    /\ \A fn \in {"new", "from_bytes", "from"} :
        Returned(fn) => WellFormed(call.ret)
    /\ \A fn \in {"set_preset", "clear_preset", "go_to_preset", "try_from"} :
        (Returned(fn) /\ call.ret.ok) => WellFormed(call.ret.msg)
    /\ out.ok => WellFormed(out.msg)

\* C2, amended: every Message obtained through Message::new, from_bytes, the
\* extended constructors or MessageBuilder::finalize has byte 0 = 0xFF and
\* byte 6 = the sum of bytes 1..5 modulo 256.
C2_ConstructedWellFormed ==
    /\ \A fn \in {"new", "from_bytes"} :
        Returned(fn) => WellFormed(call.ret)
    /\ \A fn \in {"set_preset", "clear_preset", "go_to_preset"} :
        (Returned(fn) /\ call.ret.ok) => WellFormed(call.ret.msg)
    /\ out.ok => WellFormed(out.msg)

\* an extended constructor has returned a Message whose byte sum passes 255
C2_Witness ==
    /\ Returned("go_to_preset")
    /\ call.ret.ok
    /\ call.args[1] + 7 + call.args[2] > 255

\* C3: Message::try_from(slice) succeeds if and only if the slice has exactly
\* 7 bytes; on success, and for Message::from([u8; 7]), as_ref() returns the
\* original bytes with none rewritten; for any other length the error is a
\* length-mismatch message, not an invalid-value Error, that names the size 7.
C3_TryFromRoundTrip ==
    /\ Returned("try_from") =>
        /\ call.ret.ok <=> Len(call.args) = 7
        /\ call.ret.ok => as_ref(call.ret.msg) = call.args
        /\ ~call.ret.ok =>
            /\ call.ret.kind # "InvalidValue"
            /\ \E i \in DOMAIN call.ret.description :
                call.ret.description[i] = ToString(7)
    /\ Returned("from") => as_ref(call.ret) = call.args

\* try_from has accepted 7 bytes whose sync byte and checksum are both wrong
C3_Witness ==
    /\ Returned("try_from")
    /\ call.ret.ok
    /\ call.args = <<11, 11, 11, 11, 11, 11, 11>>
    /\ as_ref(call.ret.msg) = call.args

\* bit i of byte b is set
BitSet(b, i) == (b \div (2^i)) % 2 = 1

\* C4: after MessageBuilder::new(a) and any sequence of builder operations,
\* finalize() returns Ok, and the Message equals Message::new(address, cmd1,
\* cmd2, data1, data2) of the builder's current fields;
\* new(10).camera_on().focus_far().down().tilt(Range(0.5)) finalizes to
\* Message::new(10, SENSE|CAMERA_ON_OFF, FOCUS_FAR|DOWN, 0x00, 0x20).
C4_FinalizeIsNew ==
    /\ lastOp = "finalize" =>
        /\ out.ok
        /\ out.msg = Message_new(builder.address, builder.cmd1, builder.cmd2,
                                 builder.data1, builder.data2)
        /\ out.msg = <<255, builder.address, builder.cmd1, builder.cmd2,
                       builder.data1, builder.data2,
                       (builder.address + builder.cmd1 + builder.cmd2
                            + builder.data1 + builder.data2) % 256>>
    /\ LET b == tilt(down(focus_far(camera_on(MessageBuilder_new(10)))),
                     Range(F32One \div 2))
       IN  /\ finalize(b) = Ok(Message_new(10, 136, 144, 0, 32))
           /\ finalize(b) = Ok(<<255, 10, 136, 144, 0, 32, 66>>)

\* new(10).camera_on().down().tilt(Range(0.5)) has been finalized
C4_Witness ==
    /\ lastOp = "finalize"
    /\ nops = 3
    /\ builder = [address |-> 10, cmd1 |-> 136, cmd2 |-> 16, data1 |-> 0, data2 |-> 32]
    /\ out.ok
    /\ out.msg = <<255, 10, 136, 16, 0, 32, 194>>

\* C5: finalize() leaves every builder field unchanged, two consecutive calls
\* return equal Messages, and a Message already returned is not changed by a
\* later operation on the builder.
C5_FinalizeNonDestructive ==
    /\ [][lastOp' = "finalize" => builder' = builder]_vars
    /\ [][(lastOp = "finalize" /\ lastOp' = "finalize") => out' = out]_vars
    /\ [][lastOp' # "finalize" => out' = out]_vars

\* a returned Message is still held after the builder has moved on
C5_Witness ==
    /\ lastOp \in {"flag", "speed", "stop"}
    /\ nops >= 2
    /\ out.ok
    /\ out.msg[3] = 136
    /\ builder.cmd1 # 136

\* C6: the flag setters only OR bits in: over a step that is not stop(), a
\* set bit of cmd1 or cmd2 stays set; camera_on() then camera_off() leaves
\* cmd1 = 0x88, camera_off() alone gives cmd1 = 0x08.
C6_FlagsOnlyAccumulate ==
    /\ [][lastOp' # "stop" =>
            \A i \in 0..7 :
                /\ BitSet(builder.cmd1, i) => BitSet(builder'.cmd1, i)
                /\ BitSet(builder.cmd2, i) => BitSet(builder'.cmd2, i)]_vars
    /\ [][(DoCameraOff /\ nops = 1 /\ builder.cmd1 = 136) => builder'.cmd1 = 136]_vars
    /\ [][(DoCameraOff /\ nops = 0) => builder'.cmd1 = 8]_vars

\* camera_on() then camera_off(): two flag setters have left cmd1 = 0x88
C6_Witness ==
    /\ lastOp = "flag"
    /\ nops = 2
    /\ builder = [address |-> addr0, cmd1 |-> 136, cmd2 |-> 0, data1 |-> 0, data2 |-> 0]

\* C7: stop() resets cmd1, cmd2, data1 and data2 to zero and keeps the
\* address: the builder equals MessageBuilder::new(a) again and finalize()
\* then yields [0xFF, a, 0, 0, 0, 0, a].
C7_StopResets ==
    /\ lastOp = "stop" =>
        /\ builder = [address |-> addr0, cmd1 |-> 0, cmd2 |-> 0, data1 |-> 0, data2 |-> 0]
        /\ finalize(builder) = Ok(<<255, addr0, 0, 0, 0, 0, addr0>>)
    /\ (lastOp = "finalize" /\ builder.cmd1 = 0 /\ builder.cmd2 = 0
            /\ builder.data1 = 0 /\ builder.data2 = 0) =>
        out = Ok(<<255, addr0, 0, 0, 0, 0, addr0>>)

\* stop() after camera_on().tilt(Turbo).finalize(): the Message returned
\* before shows the fields stop() has reset
C7_Witness ==
    /\ lastOp = "stop"
    /\ nops = 3
    /\ out.ok
    /\ out.msg[3] = 136
    /\ out.msg[6] = 255

RECURSIVE SumBytes(_)
SumBytes(s) == IF s = <<>> THEN 0 ELSE Head(s) + SumBytes(Tail(s))

\* C8: checksum(bytes) is the sum of all the bytes modulo 256, 0 for the
\* empty sequence; the u32 accumulator does not overflow for inputs of at
\* most 17 bytes; checksum([0x0A, 0x88, 0x90, 0x00, 0x40]) is 0x62.
C8_ChecksumIsSumMod256 ==
    Returned("checksum") =>
        /\ call.ret = SumBytes(call.args) % 256
        /\ call.args = <<>> => call.ret = 0
        /\ Len(call.args) <= 17 => ~panicked
        /\ call.args = <<10, 136, 144, 0, 64>> => call.ret = 98

\* checksum of seventeen 0xFF bytes has returned 4335 mod 256
C8_Witness ==
    /\ Returned("checksum")
    /\ call.args = [i \in 1..17 |-> 255]
    /\ call.ret = 239
    /\ ~panicked

\* |x|
Abs(x) == IF x < 0 THEN -x ELSE x

\* C9: speed_to_byte(Range(f)) clamps f to [0.0, 1.0] and returns
\* round(f * 63), the f32 product rounded to the nearest integer with halves
\* upwards; the result is in 0..=63 and non-decreasing in f; Turbo gives 0xFF;
\* Range(0.0), Range(0.5), Range(0.603), Range(1.0) give 0, 0x20, 0x26, 0x3F.
\* The f32 product is within 2^-20 of the exact one.
C9_SpeedQuantization ==
    Returned("speed_to_byte") =>
        LET s == call.args
            r == call.ret
            c == IF s.q > F32One THEN F32One ELSE IF s.q < 0 THEN 0 ELSE s.q
            p == F32MulInt(c, 63)
        IN  /\ s.kind = "Turbo" => r = 255
            /\ s.kind = "Range" => r \in 0..63
            /\ (s.kind = "Range" /\ ~s.nan) =>
                /\ s.q <= 0 => r = 0
                /\ s.q >= F32One => r = 63
                /\ 2 * (r * F32One - p) <= F32One
                /\ 2 * (p - r * F32One) < F32One
                /\ 2 * Abs(63 * c - r * F32One) <= F32One + 32
                /\ \A t \in SpeedInputs :
                    (t.kind = "Range" /\ ~t.nan /\ t.q <= s.q) => speed_to_byte(t) <= r
                /\ s.q = 0 => r = 0
                /\ s.q = F32One \div 2 => r = 32
                /\ s.q = F32_0_603 => r = 38
                /\ s.q = F32One => r = 63

\* speed_to_byte(Range(0.5)) has returned 0x20: 31.5 is rounded upwards
C9_Witness ==
    /\ Returned("speed_to_byte")
    /\ call.args = Range(F32One \div 2)
    /\ call.ret = 32

\* C10: set_preset, clear_preset and go_to_preset fail with an invalid-value
\* error, returning no Message, exactly when preset_id is 0; otherwise they
\* return the frame with payload [0x00, opcode, 0x00, preset_id], the opcode
\* being 0x03, 0x05 and 0x07.
C10_PresetZeroRejected ==
    \A fn \in {"set_preset", "clear_preset", "go_to_preset"} :
        Returned(fn) =>
            LET opcode == CASE fn = "set_preset" -> 3
                            [] fn = "clear_preset" -> 5
                            [] OTHER -> 7
                address == call.args[1]
                preset_id == call.args[2]
                r == call.ret
            IN  /\ ~r.ok <=> preset_id = 0
                /\ ~r.ok => (r.kind = "InvalidValue" /\ r.msg = <<>>)
                /\ r.ok =>
                    /\ Len(r.msg) = 7
                    /\ r.msg[1] = 255
                    /\ r.msg[2] = address
                    /\ SubSeq(r.msg, 3, 6) = <<0, opcode, 0, preset_id>>

\* clear_preset(address, 0) has failed with an invalid-value error
C10_Witness ==
    /\ Returned("clear_preset")
    /\ call.args[2] = 0
    /\ ~call.ret.ok
    /\ call.ret.kind = "InvalidValue"

KindOfLength(n) ==
    CASE n = 0 -> "None" [] n = 4 -> "General" [] n = 7 -> "Extended"
      [] n = 18 -> "Query"

\* C11: Response::try_from looks only at the length of the slice: 0, 4, 7 and
\* 18 bytes give the kinds None, General, Extended and Query whatever the
\* bytes are (a slice without the sync byte or with a wrong checksum is
\* accepted); every other length fails with an invalid-value error whose
\* description carries the length.
C11_TryFromByLength ==
    Returned("response_try_from") =>
        LET n == Len(call.args) IN
        IF n \in {0, 4, 7, 18}
        THEN /\ call.ret.ok
             /\ call.ret.msg.kind = KindOfLength(n)
        ELSE /\ ~call.ret.ok
             /\ call.ret.kind = "InvalidValue"
             /\ \E i \in DOMAIN call.ret.description :
                    call.ret.description[i] = ToString(n)

C11_Witness ==
    /\ Returned("response_try_from")
    /\ Len(call.args) = 7
    /\ call.args[1] # 255
    /\ call.ret.ok
    /\ call.ret.msg.kind = "Extended"

\* C12: checksum_is_valid(c) is always true for None; for General it is true
\* exactly when (c + byte 2) mod 256 is byte 3; for Extended exactly when
\* (byte 1 + .. + byte 5) mod 256 is byte 6, whatever c is; for Query exactly
\* when (byte 1 + .. + byte 16 + c) mod 256 is byte 17.  The query response of
\* the Pelco D example is valid with c = 0x46.
C12_ChecksumIsValid ==
    Returned("checksum_is_valid") =>
        LET b == call.args.from
            c == call.args.cmd_cksm
            k == call.args.self.kind
        IN  /\ k = KindOfLength(Len(b))
            /\ k = "None" => call.ret
            /\ k = "General" => (call.ret <=> (c + b[3]) % 256 = b[4])
            /\ k = "Extended" =>
                  (call.ret <=> (b[2] + b[3] + b[4] + b[5] + b[6]) % 256 = b[7])
            /\ k = "Query" =>
                  (call.ret <=> (SumBytes(SubSeq(b, 2, 17)) + c) % 256 = b[18])
            /\ (b = <<255, 1, 68, 68, 53, 51, 67, 66, 87, 0, 0, 0, 0, 0, 0, 0, 0, 19>>
                    /\ c = 70) => call.ret

C12_Witness ==
    /\ Returned("checksum_is_valid")
    /\ call.args.self.kind = "Query"
    /\ call.args.from[18] = 19
    /\ call.args.from[2] = 1
    /\ call.args.cmd_cksm = 70
    /\ call.ret

\* C13: bytes() returns a slice of the length its kind implies (0, 4, 7, 18);
\* for a Response that try_from built from the slice b it returns b, so the
\* zero padding of the 18-byte array is never exposed.
C13_BytesOfKind ==
    Returned("bytes") =>
        LET self == call.args.self
            n == CASE self.kind = "None" -> 0 [] self.kind = "General" -> 4
                   [] self.kind = "Extended" -> 7 [] self.kind = "Query" -> 18
        IN  /\ Len(call.ret) = n
            /\ \A i \in 1..n : call.ret[i] = self.data[i]
            /\ call.args.built => call.ret = call.args.from

C13_Witness ==
    /\ Returned("bytes")
    /\ call.args.built
    /\ Len(call.args.from) = 4
    /\ call.args.from[4] # 0
    /\ call.ret = call.args.from

RECURSIVE Frames(_)
Frames(log) ==
    IF log = <<>> THEN <<>> ELSE as_ref(Head(log).message) \o Frames(Tail(log))

AllOk(log) == \A i \in DOMAIN log : log[i].result.ok

IsIoError(result) ==
    /\ ~result.ok
    /\ result.kind[1] = "Io"
    /\ result.description = <<"IO", "error">>

PresetFrame(a, id) == <<255, a, 0, 7, 0, id, (a + 7 + id) % 256>>

\* C15: for every address, go_to_preset(addr, 0x21) succeeds and returns the
\* message of flip_180(addr), and go_to_preset(addr, 0x22) the message of
\* go_to_zero_pan(addr), byte for byte, checksum included.
C15_SpecialPresets ==
    /\ Returned("flip_180") =>
          /\ call.ret.ok
          /\ call.ret.msg = PresetFrame(call.args, 33)
          /\ call.ret = go_to_preset(call.args, 33)
    /\ Returned("go_to_zero_pan") =>
          /\ call.ret.ok
          /\ call.ret.msg = PresetFrame(call.args, 34)
          /\ call.ret = go_to_preset(call.args, 34)
    /\ (Returned("go_to_preset") /\ call.args[2] \in {33, 34}) =>
          /\ call.ret.ok
          /\ call.ret.msg = PresetFrame(call.args[1], call.args[2])
          /\ call.args[2] = 33 => call.ret = flip_180(call.args[1])
          /\ call.args[2] = 34 => call.ret = go_to_zero_pan(call.args[1])

C15_Witness ==
    /\ Returned("flip_180")
    /\ call.args = 255
    /\ call.ret.ok
    /\ call.ret.msg[7] = 39
    /\ call.ret = go_to_preset(255, 33)

\* C16: write_char_to_screen(address, column, ch) fails with an
\* invalid-value error, and returns no Message, exactly when the code point
\* of ch is above 0x7F; otherwise the payload is [0x00, 0x15, column, code
\* point], so data2 is at most 0x7F.
C16_WriteCharAsciiOnly ==
    Returned("write_char_to_screen") =>
        LET a == call.args[1]
            column == call.args[2]
            ch == call.args[3]
        IN  /\ ~call.ret.ok <=> ch > 127
            /\ ~call.ret.ok => call.ret.kind = "InvalidValue" /\ call.ret.msg = <<>>
            /\ call.ret.ok =>
                  /\ call.ret.msg =
                        <<255, a, 0, 21, column, ch, (a + 21 + column + ch) % 256>>
                  /\ call.ret.msg[6] <= 127

C16_Witness ==
    /\ Returned("write_char_to_screen")
    /\ call.args = <<11, 32, 128>>
    /\ ~call.ret.ok
    /\ call.ret.kind = "InvalidValue"

AdjustOpcode(fn) ==
    CASE fn = "adjust_line_lock_phase_delay" -> 57
      [] fn = "adjust_white_balance_rb" -> 59
      [] fn = "adjust_white_balance_mg" -> 61
      [] fn = "adjust_gain" -> 63
      [] fn = "adjust_auto_iris_level" -> 65
      [] fn = "adjust_auto_iris_peak" -> 67

\* C17: each adjustment constructor returns the payload [mode, opcode, hi, lo]
\* with its own opcode (0x39, 0x3B, 0x3D, 0x3F, 0x41, 0x43); mode is 0 for
\* New(v) and 1 for Delta(d); hi * 256 + lo is v for New and the 16-bit two's
\* complement of d for Delta, that is d + 65536 when d is negative.
C17_AdjustPayload ==
    (call.fn \in AdjustFns /\ call.done) =>
        LET a == call.args[1]
            ctrl == call.args[2]
            m == call.ret.msg
        IN  /\ call.ret.ok
            /\ Len(m) = 7
            /\ m[1] = 255
            /\ m[2] = a
            /\ m[3] = (IF ctrl.kind = "New" THEN 0 ELSE 1)
            /\ m[4] = AdjustOpcode(call.fn)
            /\ m[5] \in 0..255
            /\ m[6] \in 0..255
            /\ ctrl.kind = "New" => m[5] * 256 + m[6] = ctrl.value
            /\ ctrl.kind = "Delta" =>
                  m[5] * 256 + m[6] =
                      (IF ctrl.value < 0 THEN ctrl.value + 65536 ELSE ctrl.value)
            /\ m[7] = (m[2] + m[3] + m[4] + m[5] + m[6]) % 256

C17_Witness ==
    /\ Returned("adjust_gain")
    /\ call.args[2] = [kind |-> "Delta", value |-> 0 - 2]
    /\ call.ret.ok
    /\ call.ret.msg = <<255, 1, 1, 63, 255, 254, 62>>

OrsInto(before, bits, after) ==
    \A i \in 0..7 : BitSet(after, i) <=> (BitSet(before, i) \/ BitSet(bits, i))

DirectionFns == {"direction", "down", "up", "left", "right"}

\* C18: direction(d) ORs the bits of d into cmd2 as they are, without
\* shifting, and never panics for a Direction (any combination of DOWN 0x10,
\* UP 0x08, LEFT 0x04, RIGHT 0x02): Command2::from_bits(d.bits) is Some of
\* the same bits.  cmd1, data1, data2 and the address are unchanged.  down(),
\* up(), left() and right() set exactly the bit of Command2::DOWN, UP, LEFT
\* and RIGHT.
C18_DirectionNeverPanics ==
    /\ (call.fn = "none" \/ call.fn \in DirectionFns) => ~panicked
    /\ call.fn = "direction" =>
          call.args.direction \in
              {x + y + z + w : x \in {0, 16}, y \in {0, 8}, z \in {0, 4}, w \in {0, 2}}
    /\ (call.fn \in DirectionFns /\ call.done) =>
          LET self == call.args.self
              d == CASE call.fn = "direction" -> call.args.direction
                     [] call.fn = "down" -> 16
                     [] call.fn = "up" -> 8
                     [] call.fn = "left" -> 4
                     [] call.fn = "right" -> 2
          IN  /\ Command2_from_bits(d) = [some |-> TRUE, bits |-> d]
              /\ OrsInto(self.cmd2, d, call.ret.cmd2)
              /\ call.ret = [self EXCEPT !.cmd2 = call.ret.cmd2]

C18_Witness ==
    /\ Returned("direction")
    /\ ~panicked
    /\ call.args.direction = 30
    /\ call.args.self.cmd2 = 128 + 32 + 2
    /\ call.ret.cmd2 = 128 + 32 + 30
    /\ call.ret.cmd1 = 136
    /\ call.ret.data1 = 32

\* C19: pan(s) overwrites data1 with speed_to_byte(s) and tilt(s) overwrites
\* data2 with it, whatever the field held, so that after several pan (or
\* tilt) calls only the last one counts; neither changes another field of the
\* builder.  tilt(Speed::Turbo) is not rejected: it sets data2 to 0xFF and
\* finalize() still succeeds.
C19_PanTiltOverwrite ==
    /\ [](Returned("pan") =>
            /\ call.ret = [call.args.self EXCEPT !.data1 = call.ret.data1]
            /\ call.ret.data1 = speed_to_byte(call.args.speed)
            /\ call.args.speed.kind = "Turbo" => call.ret.data1 = 255
            /\ call.args.speed = [kind |-> "Range", nan |-> FALSE, q |-> 8388608]
                  => call.ret.data1 = 32)
    /\ [](Returned("tilt") =>
            /\ call.ret = [call.args.self EXCEPT !.data2 = call.ret.data2]
            /\ call.ret.data2 = speed_to_byte(call.args.speed)
            /\ call.args.speed.kind = "Turbo" => call.ret.data2 = 255
            /\ call.args.speed = [kind |-> "Range", nan |-> FALSE, q |-> 8388608]
                  => call.ret.data2 = 32)
    /\ [][(call.fn = "none" /\ lastOp' = "speed" /\ nops' = nops + 1) =>
            \E b \in {32, 255} :
                \/ builder' = [builder EXCEPT !.data1 = b]
                \/ builder' = [builder EXCEPT !.data2 = b]]_vars
    /\ []((call.fn = "none" /\ lastOp = "finalize") =>
            /\ out.ok
            /\ out.msg[5] = builder.data1
            /\ out.msg[6] = builder.data2)

C19_Witness ==
    /\ call.fn = "none"
    /\ lastOp = "finalize"
    /\ nops = 3
    /\ builder.data1 = 32
    /\ builder.data2 = 255
    /\ builder.cmd2 = 0
    /\ out.ok
    /\ out.msg[5] = 32
    /\ out.msg[6] = 255

\* C20: the encoder and the decoder agree on the checksum of a frame: for
\* every Message m that Message::new, from_bytes, an extended constructor or
\* MessageBuilder::finalize produces, Response::try_from(m.as_ref()) has kind
\* Extended and checksum_is_valid(c) is true for every c.  The encoder sums
\* bytes 1..6 with the checksum slot still zero, the decoder sums bytes 1..5:
\* both are the sum of bytes 1..5 modulo 256, which is byte 6 of m.
C20_EncoderDecoderAgree ==
    Returned("checksum_is_valid_of_message") =>
        LET m == call.args.message
        IN  /\ Len(m) = 7
            /\ m[7] = (m[2] + m[3] + m[4] + m[5] + m[6]) % 256
            /\ call.ret.ok
            /\ call.ret.msg.kind = "Extended"
            /\ call.ret.msg.valid

C20_Witness ==
    /\ Returned("checksum_is_valid_of_message")
    /\ call.args.ctor = "finalize"
    /\ call.args.cmd_cksm = 255
    /\ call.args.message[6] = 255
    /\ call.args.message[2] + call.args.message[3] + call.args.message[4]
          + call.args.message[5] + call.args.message[6] > 512
    /\ call.ret.ok
    /\ call.ret.msg.kind = "Extended"
    /\ call.ret.msg.valid

\* C21: no builder operation changes the address: for a builder created by
\* MessageBuilder::new(a), after any sequence of operations, stop() included,
\* the builder still holds a, and every Message that finalize() returns has
\* byte 0 equal to 0xFF, byte 1 equal to a, and none of the unassigned bits
\* set: cmd1 & 0x60 = 0 and cmd2 & 0x01 = 0.
C21_AddressAndUnassignedBits ==
    call.fn = "none" =>
        /\ builder.address = addr0
        /\ ~BitSet(builder.cmd1, 5) /\ ~BitSet(builder.cmd1, 6)
        /\ ~BitSet(builder.cmd2, 0)
        /\ lastOp = "finalize" => out.ok
        /\ out.ok =>
              /\ Len(out.msg) = 7
              /\ out.msg[1] = 255
              /\ out.msg[2] = addr0
              /\ (out.msg[3] \div 32) % 4 = 0
              /\ out.msg[4] % 2 = 0

\* finalize() after stop() and two flag setters, e.g. stop(), camera_on(),
\* direction(DOWN | UP | LEFT | RIGHT), on a builder for address 255
C21_Witness ==
    /\ call.fn = "none"
    /\ lastOp = "finalize"
    /\ nops = 3
    /\ addr0 = 255
    /\ out.ok
    /\ out.msg = <<255, 255, 136, 30, 0, 0, 165>>

====
